---- MODULE Spec2Model ----
(***************************************************************************)
(* Solar Mapping & Recommendation System (src/streamlit_app1.py).          *)
(*                                                                         *)
(* The script is one top-to-bottom run per Streamlit rerun: the sidebar    *)
(* widgets are read, the location is resolved, the solar resource is       *)
(* fetched, the panels are packed, and the forecast, the financials and    *)
(* the suitability score are computed.  Spec is that run.  SpecCore calls  *)
(* the helper functions of the script directly, with arguments the sidebar *)
(* would not let through (a zero or negative roof, an empty irradiance     *)
(* dict, any year).                                                        *)
(*                                                                         *)
(* Python ints are integers.  Python floats are fixed-point integers, each *)
(* quantity in the unit below, and the arithmetic on them is exact:        *)
(*   lengths                      centimetres                              *)
(*   areas                        square centimetres                       *)
(*   latitude, longitude          1/10000 degree                           *)
(*   irradiance (PSH)             1/10 kWh/m2/day                          *)
(*   performance ratio, shading   1/20                                     *)
(*   system size                  1/20 kW                                  *)
(*   energy                       1/80000 kWh  (= 1/20 * 1/10 * 1/20 * 1/20) *)
(*   tariff                       1/2 currency unit per kWh                *)
(*   costs, savings               currency units                           *)
(*   payback                      1/10 year                                *)
(*   sub-scores                   1/300000 point                           *)
(*   suitability score            1/10 point                               *)
(***************************************************************************)
EXTENDS Integers, Sequences, FiniteSets, TLC

\* ------------------------------------------------------------------------
\* Arithmetic
\* ------------------------------------------------------------------------
Abs(x) == IF x < 0 THEN -x ELSE x

Max(a, b) == IF a >= b THEN a ELSE b

Min(a, b) == IF a <= b THEN a ELSE b

\* np.clip(v, lo, hi)
Clip(v, lo, hi) == Min(Max(v, lo), hi)

\* round() of whole + n/d (d > 0, 0 <= n): to the nearest integer, a tie
\* going to the even one
RoundFrom(whole, n, d) ==
    LET f == whole + (n \div d)
        m == n % d
    IN  IF 2 * m < d THEN f
        ELSE IF 2 * m > d THEN f + 1
        ELSE IF f % 2 = 0 THEN f ELSE f + 1

\* round(n / d), d > 0
Round(n, d) == RoundFrom(n \div d, n % d, d)

\* round(a * t / d), d > 0 and t >= 0, without forming a * t
RoundProduct(a, t, d) == RoundFrom((a \div d) * t, (a % d) * t, d)

RECURSIVE Sum(_)
Sum(s) == IF s = <<>> THEN 0 ELSE Head(s) + Sum(Tail(s))

\* ------------------------------------------------------------------------
\* Insertion-ordered dicts: sequences of <<key, value>>
\* ------------------------------------------------------------------------
Keys(d) == [i \in 1..Len(d) |-> d[i][1]]

Values(d) == [i \in 1..Len(d) |-> d[i][2]]

HasKey(d, k) == \E i \in 1..Len(d) : d[i][1] = k

Get(d, k) == d[CHOOSE i \in 1..Len(d) : d[i][1] = k][2]

MonthNames ==
    <<"Jan", "Feb", "Mar", "Apr", "May", "Jun",
      "Jul", "Aug", "Sep", "Oct", "Nov", "Dec">>

ApiKeys ==
    <<"JAN", "FEB", "MAR", "APR", "MAY", "JUN",
      "JUL", "AUG", "SEP", "OCT", "NOV", "DEC">>

\* the dict with the keys Jan..Dec, in that order
Profile(psh) == [i \in 1..12 |-> <<MonthNames[i], psh[i]>>]

\* ------------------------------------------------------------------------
\* fetch_nasa_power_monthly
\* ------------------------------------------------------------------------
fallback_india == Profile(<<45, 52, 60, 64, 65, 55, 48, 50, 58, 57, 50, 46>>)

fallback_global == Profile(<<38, 45, 55, 58, 60, 50, 42, 45, 50, 52, 45, 40>>)

\* A JSON value of the response: a number, or something float() rejects
Num(x) == [num |-> TRUE, v |-> x]

NotNum == [num |-> FALSE, v |-> 0]

\* What the request of a call meets.  get: what requests.get does ("ok" or
\* the exception it raises); status_ok: the HTTP status is no error;
\* json_ok: the body parses; has_param: the parsed body holds
\* properties.parameter.ALLSKY_SFC_SW_DWN; values: that object.
Response(get, status_ok, json_ok, has_param, values) ==
    [get |-> get, status_ok |-> status_ok, json_ok |-> json_ok,
     has_param |-> has_param, values |-> values]

\* the exception the try block raises, "none" when it returns
fetch_exception(resp) ==
    IF resp.get # "ok" THEN resp.get
    ELSE IF ~resp.status_ok THEN "HTTPError"
    ELSE IF ~resp.json_ok THEN "JSONDecodeError"
    ELSE IF ~resp.has_param THEN "KeyError"
    ELSE IF \E i \in 1..12 : ~HasKey(resp.values, ApiKeys[i]) THEN "KeyError"
    ELSE IF \E i \in 1..12 : ~Get(resp.values, ApiKeys[i]).num THEN "ValueError"
    ELSE "none"

\* the band with its edge: abs(lat) <= 30
tropical_band_inclusive(lat) == Abs(lat) <= 30 * 10000

\* abs(lat) < 30
tropical_band(lat) == Abs(lat) < 30 * 10000

fetch_nasa_power_monthly(lat, lon, resp) ==
    IF fetch_exception(resp) = "none"
    THEN [i \in 1..12 |-> <<MonthNames[i], Get(resp.values, ApiKeys[i]).v>>]
    ELSE IF tropical_band(lat) THEN fallback_india ELSE fallback_global

\* ------------------------------------------------------------------------
\* days_in_months
\* ------------------------------------------------------------------------
\* the Julian rule: every fourth year
feb_days_julian(year) == IF year % 4 = 0 THEN 29 ELSE 28

feb_days(year) ==
    IF year % 4 = 0 /\ (year % 100 # 0 \/ year % 400 = 0) THEN 29 ELSE 28

days_in_months(year) ==
    <<  <<"Jan", 31>>, <<"Feb", feb_days(year)>>, <<"Mar", 31>>,
        <<"Apr", 30>>, <<"May", 31>>, <<"Jun", 30>>, <<"Jul", 31>>,
        <<"Aug", 31>>, <<"Sep", 30>>, <<"Oct", 31>>, <<"Nov", 30>>,
        <<"Dec", 31>>  >>

\* ------------------------------------------------------------------------
\* suitability_score
\* ------------------------------------------------------------------------
\* p points, as a sub-score
Points(p) == p * 300000

\* 20 + (avg_psh - 3) * 18 clipped to [20, 95], 50 for an empty dict.  The
\* mean of n values v is Sum(v) / (10 n) kWh/m2/day, so (avg_psh - 3) * 18
\* points are (Sum(v) - 30 n) * 18 * 300000 / (10 n) sub-score units; the
\* division is exact for the 12 values a dict of the fetch holds.
resource_score(monthly_psh_dict) ==
    IF monthly_psh_dict = <<>> THEN Points(50)
    ELSE LET n == Len(monthly_psh_dict)
             total == Sum(Values(monthly_psh_dict))
         IN  Clip(Points(20) + ((total - 30 * n) * 540000) \div n,
                  Points(20), Points(95))

\* the area term without its clip
area_score_unclipped(roof_area_m2) ==
    Points(30) + (roof_area_m2 - 10 * 10000) * 45

\* 30 + clip((roof_area_m2 - 10) * 1.5, 0, 65): a square centimetre over
\* 10 m2 is 1.5 / 10000 point, 45 sub-score units
area_score(roof_area_m2) ==
    Points(30) + Clip((roof_area_m2 - 10 * 10000) * 45, 0, Points(65))

\* clip(100 - shading_factor * 100, 10, 100): a twentieth is 5 points
shade_score(sf) == Clip(Points(100) - sf * Points(5), Points(10), Points(100))

\* clip(100 - abs(abs(lat) - tilt_deg) * 2.2, 40, 100): 1/10000 degree is
\* 2.2 / 10000 point, 66 sub-score units
tilt_score(tilt, lat) ==
    LET ideal == Abs(Abs(lat) - tilt * 10000)
    IN  Clip(Points(100) - ideal * 66, Points(40), Points(100))

\* [0.35, 0.25, 0.2, 0.2], in twentieths
weights == <<7, 5, 4, 4>>

\* final, the weighted sum, times 20
weighted_sum(roof_area_m2, monthly_psh_dict, sf, tilt, lat) ==
    resource_score(monthly_psh_dict) * weights[1]
    + area_score(roof_area_m2) * weights[2]
    + shade_score(sf) * weights[3]
    + tilt_score(tilt, lat) * weights[4]

\* round(float(final), 1), as the set of the values it can give: the tenth
\* nearest to final, a tenth of a point being 30000 sub-score units.  Where
\* final is midway between two tenths the float is not (no x.x5 is a binary
\* fraction): the error of the float sum decides, and both tenths are given.
suitability_score(roof_area_m2, monthly_psh_dict, sf, tilt, lat) ==
    LET final20 == weighted_sum(roof_area_m2, monthly_psh_dict, sf, tilt, lat)
        d       == 20 * 30000
        below   == final20 \div d
    IN  { v \in {below, below + 1} :
            2 * (final20 - v * d) <= d /\ 2 * (v * d - final20) <= d }

\* ------------------------------------------------------------------------
\* compute_panels_fit
\* ------------------------------------------------------------------------
\* abs() for the clamp
avail_abs(roof, c) == Abs(roof - 2 * c)

\* max(roof - 2*clearance, 0)
avail(roof, c) == Max(roof - 2 * c, 0)

\* the count without the half clearance
count_axis_without_bonus(av, p, c) ==
    IF p <= 0 THEN [exc |-> "none", n |-> 0]
    ELSE IF p + c = 0 THEN [exc |-> "ZeroDivisionError", n |-> 0]
    ELSE [exc |-> "none", n |-> Max(av \div (p + c), 0)]

\* the count without the guard on p
count_axis_unguarded(av, p, c) ==
    IF p + c = 0 THEN [exc |-> "ZeroDivisionError", n |-> 0]
    ELSE IF p + c > 0
         THEN [exc |-> "none", n |-> Max((2 * av + c) \div (2 * (p + c)), 0)]
         ELSE [exc |-> "none", n |-> Max((-(2 * av + c)) \div (-(2 * (p + c))), 0)]

\* The nested count_axis; c is the clearance it closes over.
\* (avail + clearance*0.5) // (p + clearance) is taken with both sides
\* doubled, which keeps the half clearance whole; a float floor division by
\* zero raises ZeroDivisionError, and \div rounds to minus infinity as //.
count_axis(av, p, c) ==
    IF p <= 0 THEN [exc |-> "none", n |-> 0]
    ELSE IF p + c = 0 THEN [exc |-> "ZeroDivisionError", n |-> 0]
    ELSE IF p + c > 0
         THEN [exc |-> "none", n |-> Max((2 * av + c) \div (2 * (p + c)), 0)]
         ELSE [exc |-> "none", n |-> Max((-(2 * av + c)) \div (-(2 * (p + c))), 0)]

\* the swap on the other orientation
footprint_swapped(pw, ph, orient) ==
    IF orient = "Portrait" THEN <<ph, pw>> ELSE <<pw, ph>>

\* <<pw, ph>>
footprint(pw, ph, orient) ==
    IF orient = "Landscape" THEN <<ph, pw>> ELSE <<pw, ph>>

compute_panels_fit(rw, rh, pw, ph, c, orient) ==
    LET p     == footprint(pw, ph, orient)
        colsR == count_axis(avail(rw, c), p[1], c)
        rowsR == count_axis(avail(rh, c), p[2], c)
    IN  IF colsR.exc # "none"
        THEN [exc |-> colsR.exc, count |-> 0, rows |-> 0, cols |-> 0]
        ELSE IF rowsR.exc # "none"
        THEN [exc |-> rowsR.exc, count |-> 0, rows |-> 0, cols |-> 0]
        ELSE [exc |-> "none", count |-> rowsR.n * colsR.n,
              rows |-> rowsR.n, cols |-> colsR.n]

\* ------------------------------------------------------------------------
\* draw_layout_preview
\* ------------------------------------------------------------------------
\* plt.Rectangle((x, y), w, h)
Rectangle(x, y, w, h) == [x |-> x, y |-> y, w |-> w, h |-> h]

\* the panels drawn from the corner of the roof, without x0 and y0
draw_layout_preview_from_origin(rw, rh, nrows, ncols, panel_width, panel_height, c, orient) ==
    LET pw == IF orient = "Landscape" THEN panel_height ELSE panel_width
        ph == IF orient = "Landscape" THEN panel_width ELSE panel_height
    IN  { Rectangle(k * (pw + c), r * (ph + c), pw, ph) :
            r \in 0..(nrows - 1), k \in 0..(ncols - 1) }

\* The panel rectangles the figure holds (the roof outline and the dashed
\* inset are drawn before them); r and k are the loop's r and c.
draw_layout_preview(rw, rh, nrows, ncols, panel_width, panel_height, c, orient) ==
    LET pw == IF orient = "Landscape" THEN panel_height ELSE panel_width
        ph == IF orient = "Landscape" THEN panel_width ELSE panel_height
        x0 == c
        y0 == c
    IN  { Rectangle(x0 + k * (pw + c), y0 + r * (ph + c), pw, ph) :
            r \in 0..(nrows - 1), k \in 0..(ncols - 1) }

\* ------------------------------------------------------------------------
\* monthly_energy_kwh
\* ------------------------------------------------------------------------
\* the product without the shading loss
monthly_energy_kwh_unshaded(kw, psh, days, pr, sf) == kw * psh * days * pr * 20

\* the shading loss with its sign turned
monthly_energy_kwh_loss(kw, psh, days, pr, sf) == kw * psh * days * pr * (sf - 20)

\* system_kw * monthly_psh * days * performance_ratio * (1 - shading_factor)
monthly_energy_kwh(kw, psh, days, pr, sf) == kw * psh * days * pr * (20 - sf)

\* ------------------------------------------------------------------------
\* Predefined places
\* ------------------------------------------------------------------------
\* Python's None
None == <<>>

\* the dict, in its order: a category separator maps to None, a place to
\* <<latitude, longitude>>, in 1/10000 degree
PLACES ==
    <<
        <<"--- Central Govt ---", None>>,
        <<"Rashtrapati Bhavan (Delhi)", <<286143, 771995>>>>,
        <<"Parliament House (Delhi)", <<286172, 772080>>>>,
        <<"Supreme Court (Delhi)", <<286260, 772410>>>>,
        <<"--- State Capitals ---", None>>,
        <<"Raipur Collectorate", <<212514, 816296>>>>,
        <<"Bengaluru Vidhana Soudha", <<129797, 775907>>>>,
        <<"Mumbai Mantralaya", <<189430, 728238>>>>,
        <<"Chennai Fort St George", <<130827, 802750>>>>,
        <<"Kolkata Writers' Building", <<225726, 883639>>>>,
        <<"Hyderabad Secretariat", <<173850, 784867>>>>,
        <<"Bhopal Mantralaya", <<232599, 774126>>>>,
        <<"Patna Secretariat", <<255941, 851376>>>>,
        <<"Jaipur Secretariat", <<269124, 757873>>>>,
        <<"Lucknow Vidhan Sabha", <<268467, 809462>>>>,
        <<"Gandhinagar Sachivalaya", <<232156, 726369>>>>,
        <<"Thiruvananthapuram Secretariat", <<85241, 769366>>>>,
        <<"--- Union Territories ---", None>>,
        <<"Chandigarh Secretariat", <<307333, 767794>>>>,
        <<"Puducherry Raj Nivas", <<119416, 798083>>>>,
        <<"Port Blair Secretariat", <<116234, 927265>>>>
    >>

\* ------------------------------------------------------------------------
\* Sizing and financials
\* ------------------------------------------------------------------------
\* round((panels_fit * panel_watt) / 1000.0, 3): a whole number of watts over
\* 1000 has three decimals, so the rounding keeps it; a twentieth of a kW is
\* 50 W, and every wattage of the model is a multiple of 50 W
system_size(count, watt) == (count * watt) \div 50

\* round(system_kw * cost_per_kw, 0)
installation_cost(kw, cost) == Round(kw * cost, 20)

\* round(annual_kwh * tariff, 0): 1/80000 kWh times 1/2 unit per kWh
savings(kwh, price) == RoundProduct(kwh, price, 160000)

\* the divisor without its floor
payback_divisor_unfloored(saved) == saved

\* max(annual_savings, 1)
payback_divisor(saved) == Max(saved, 1)

\* round(install_cost / max(annual_savings, 1), 1); a division by zero
\* raises ZeroDivisionError
payback(install, saved) ==
    LET divisor == payback_divisor(saved)
    IN  IF divisor = 0
        THEN [exc |-> "ZeroDivisionError", years |-> 0]
        ELSE IF divisor > 0
             THEN [exc |-> "none", years |-> Round(10 * install, divisor)]
             ELSE [exc |-> "none", years |-> Round(-10 * install, -divisor)]

\* ------------------------------------------------------------------------
\* State
\* ------------------------------------------------------------------------
VARIABLES
    \* sidebar widgets
    place_choice, free_text, manual_lat, manual_lon,
    roof_w, roof_h, clearance, panel_w, panel_h, panel_watt, orientation,
    performance_ratio, shading_factor, tilt_deg, cost_per_kw, tariff,
    \* the import-time flag
    GEOPY_AVAILABLE,
    \* the script's names
    selected_lat, selected_lon, selected_name, monthly_psh,
    panels_fit, rows, cols, system_kw, roof_area, fig_layout,
    dim, monthly_energy, annual_kwh,
    install_cost, annual_savings, payback_years, score,
    \* arguments of a direct call: the year given to days_in_months (in the
    \* script, the year of the clock) and the response the fetch meets
    year, nasa_resp,
    \* control: the function under call ("script" for the run of the script),
    \* the place in it, and the exception that ended it ("none")
    fn, pc, exc

location_inputs == <<place_choice, free_text, manual_lat, manual_lon, GEOPY_AVAILABLE>>

geometry_inputs == <<roof_w, roof_h, clearance, panel_w, panel_h, panel_watt, orientation>>

performance_inputs == <<performance_ratio, shading_factor, tilt_deg, cost_per_kw, tariff>>

inputs == <<location_inputs, geometry_inputs, performance_inputs>>

location == <<selected_lat, selected_lon, selected_name>>

layout == <<panels_fit, rows, cols, system_kw, roof_area, fig_layout>>

forecast == <<dim, monthly_energy, annual_kwh>>

financials == <<install_cost, annual_savings, payback_years>>

vars == <<inputs, location, monthly_psh, layout, forecast, financials, score,
          year, nasa_resp, fn, pc, exc>>

\* months = list(monthly_psh.keys())
months == Keys(monthly_psh)

\* ------------------------------------------------------------------------
\* Inputs
\* ------------------------------------------------------------------------
\* a NASA POWER parameter object: the twelve months and the annual mean
ApiValues(psh) ==
    [i \in 1..13 |-> IF i = 13 THEN <<"ANN", Num(50)>>
                     ELSE <<ApiKeys[i], Num(psh[i])>>]

GoodValues == ApiValues(<<41, 49, 58, 66, 69, 52, 40, 39, 47, 52, 46, 40>>)

ZeroValues == ApiValues([i \in 1..12 |-> 0])

\* values below zero, as the months the service has no data for
NegativeValues == ApiValues([i \in 1..12 |-> -10])

\* the responses that make the try block return
GoodResponses ==
    { Response("ok", TRUE, TRUE, TRUE, v) :
        v \in {GoodValues, ZeroValues, NegativeValues} }

\* the responses that make it raise
BadResponses ==
    { Response("ConnectionError", FALSE, FALSE, FALSE, <<>>),
      Response("Timeout", FALSE, FALSE, FALSE, <<>>),
      Response("ok", FALSE, FALSE, FALSE, <<>>),
      Response("ok", TRUE, FALSE, FALSE, <<>>),
      Response("ok", TRUE, TRUE, FALSE, <<>>),
      Response("ok", TRUE, TRUE, TRUE, SubSeq(GoodValues, 1, 11)),
      Response("ok", TRUE, TRUE, TRUE, [GoodValues EXCEPT ![7] = <<"JUL", NotNum>>]) }

Responses == GoodResponses \cup BadResponses

NoResponse == Response("none", FALSE, FALSE, FALSE, <<>>)

\* What the sidebar of a run of the script can hold (each widget within its
\* min_value and its range)
PlaceChoices == {"", "Chandigarh Secretariat"}

FreeTexts == {""}

RoofWidths == {200, 1000}

RoofHeights == {800}

Clearances == {40, 120}

PanelWatts == {150, 400}

Orientations == {"Portrait", "Landscape"}

PerformanceRatios == {12, 15}

ShadingFactors == {0, 2, 16}

CostsPerKw == {10000, 55000}

Tariffs == {2, 16}

\* the years the clock of a run may show
CurrentYears == {2023, 2024}

\* before the script assigns them, the names below hold nothing
NothingComputed ==
    /\ selected_lat = 0 /\ selected_lon = 0 /\ selected_name = ""
    /\ monthly_psh = <<>>
    /\ panels_fit = 0 /\ rows = 0 /\ cols = 0
    /\ system_kw = 0 /\ roof_area = 0 /\ fig_layout = {}
    /\ dim = <<>> /\ monthly_energy = <<>> /\ annual_kwh = 0
    /\ install_cost = 0 /\ annual_savings = 0 /\ payback_years = 0
    /\ score = 0
    /\ exc = "none"

\* the widgets' default values (lines 223-256)
DefaultLocationInputs ==
    /\ place_choice = "" /\ free_text = ""
    /\ manual_lat = 212514 /\ manual_lon = 816296
    /\ GEOPY_AVAILABLE = TRUE

DefaultGeometryInputs ==
    /\ roof_w = 1000 /\ roof_h = 800 /\ clearance = 40
    /\ panel_w = 110 /\ panel_h = 175 /\ panel_watt = 400
    /\ orientation = "Portrait"

DefaultPerformanceInputs ==
    /\ performance_ratio = 15 /\ shading_factor = 2
    /\ tilt_deg = 21 /\ cost_per_kw = 55000 /\ tariff = 16

\* A run of the script: the sidebar is read first
Init ==
    /\ fn = "script" /\ pc = "resolve"
    /\ place_choice \in PlaceChoices /\ free_text \in FreeTexts
    /\ manual_lat = 212514 /\ manual_lon = 816296
    /\ GEOPY_AVAILABLE = TRUE
    /\ roof_w \in RoofWidths /\ roof_h \in RoofHeights
    /\ clearance \in Clearances
    /\ panel_w = 110 /\ panel_h = 175
    /\ panel_watt \in PanelWatts /\ orientation \in Orientations
    /\ performance_ratio \in PerformanceRatios
    /\ shading_factor \in ShadingFactors
    /\ tilt_deg = 21
    /\ cost_per_kw \in CostsPerKw /\ tariff \in Tariffs
    /\ year = 0 /\ nasa_resp = NoResponse
    /\ NothingComputed

\* ------------------------------------------------------------------------
\* The run of the script
\* ------------------------------------------------------------------------
IsPlace(k) == \E i \in 1..Len(PLACES) : PLACES[i][1] = k /\ PLACES[i][2] # None

\* what geolocator.geocode does: None, a location, or an exception
GeocodeOutcomes ==
    { [kind |-> "none", pos |-> None],
      [kind |-> "found", pos |-> <<211938, 813509>>],
      [kind |-> "exception", pos |-> None] }

\* lines 264-286
ResolveLocation ==
    /\ fn = "script" /\ pc = "resolve"
    /\ \E geo \in GeocodeOutcomes :
        LET picked == place_choice # "" /\ IsPlace(place_choice)
            lat1 == IF picked THEN Get(PLACES, place_choice)[1] ELSE manual_lat
            lon1 == IF picked THEN Get(PLACES, place_choice)[2] ELSE manual_lon
            name1 == IF picked THEN place_choice ELSE ""
            found == free_text # "" /\ GEOPY_AVAILABLE /\ geo.kind = "found"
        IN  /\ selected_lat' = IF found THEN geo.pos[1] ELSE lat1
            /\ selected_lon' = IF found THEN geo.pos[2] ELSE lon1
            /\ selected_name' =
                 IF found THEN free_text
                 ELSE IF free_text # "" /\ ~GEOPY_AVAILABLE THEN free_text
                 ELSE name1
    /\ pc' = "map"
    /\ UNCHANGED <<inputs, monthly_psh, layout, forecast, financials, score,
                   year, nasa_resp, fn, exc>>

\* what st_folium returns: the three places the script reads, each None or
\* <<lat, lng>>
MapData(last_clicked, last_object_clicked, last_dragged) ==
    [last_clicked |-> last_clicked, last_object_clicked |-> last_object_clicked,
     last_dragged |-> last_dragged]

MapDatas == { MapData(None, None, None) }

\* lines 311-330
MapInteraction ==
    /\ fn = "script" /\ pc = "map"
    /\ \E map_data \in MapDatas :
        LET lc == map_data.last_clicked
            oc == map_data.last_object_clicked
            ld == map_data.last_dragged
            pos == IF ld # None THEN ld
                   ELSE IF oc # None THEN oc
                   ELSE IF lc # None THEN lc
                   ELSE <<selected_lat, selected_lon>>
        IN  /\ selected_lat' = pos[1]
            /\ selected_lon' = pos[2]
            /\ selected_name' = IF lc # None THEN "Clicked location"
                                ELSE selected_name
    /\ pc' = "resource"
    /\ UNCHANGED <<inputs, monthly_psh, layout, forecast, financials, score,
                   year, nasa_resp, fn, exc>>

\* line 339: the response is the call's own, the script sees the dict
FetchSolarResource ==
    /\ fn = "script" /\ pc = "resource"
    /\ \E resp \in Responses :
        monthly_psh' = fetch_nasa_power_monthly(selected_lat, selected_lon, resp)
    /\ pc' = "layout"
    /\ UNCHANGED <<inputs, location, layout, forecast, financials, score,
                   year, nasa_resp, fn, exc>>

\* lines 356-358; an exception ends the run
PanelLayout ==
    /\ fn = "script" /\ pc = "layout"
    /\ LET r == compute_panels_fit(roof_w, roof_h, panel_w, panel_h, clearance,
                                   orientation)
       IN  IF r.exc # "none"
           THEN /\ exc' = r.exc /\ pc' = "crashed"
                /\ UNCHANGED layout
           ELSE /\ panels_fit' = r.count /\ rows' = r.rows /\ cols' = r.cols
                /\ system_kw' = system_size(r.count, panel_watt)
                /\ roof_area' = roof_w * roof_h
                /\ pc' = "preview"
                /\ UNCHANGED <<fig_layout, exc>>
    /\ UNCHANGED <<inputs, location, monthly_psh, forecast, financials, score,
                   year, nasa_resp, fn>>

\* line 361
LayoutPreview ==
    /\ fn = "script" /\ pc = "preview"
    /\ fig_layout' = draw_layout_preview(roof_w, roof_h, rows, cols, panel_w,
                                         panel_h, clearance, orientation)
    /\ pc' = "forecast"
    /\ UNCHANGED <<inputs, location, monthly_psh, panels_fit, rows, cols,
                   system_kw, roof_area, forecast, financials, score,
                   year, nasa_resp, fn, exc>>

\* lines 375-377; days_in_months() takes the year of the clock
MonthlyForecast ==
    /\ fn = "script" /\ pc = "forecast"
    /\ \E now \in CurrentYears :
        /\ year' = now
        /\ dim' = days_in_months(now)
    /\ monthly_energy' =
         [i \in 1..Len(months) |->
            monthly_energy_kwh(system_kw, Get(monthly_psh, months[i]),
                               Get(dim', months[i]), performance_ratio,
                               shading_factor)]
    /\ annual_kwh' = Sum(monthly_energy')
    /\ pc' = "financials"
    /\ UNCHANGED <<inputs, location, monthly_psh, layout, financials, score,
                   nasa_resp, fn, exc>>

\* lines 394-396; an exception ends the run
Financials ==
    /\ fn = "script" /\ pc = "financials"
    /\ install_cost' = installation_cost(system_kw, cost_per_kw)
    /\ annual_savings' = savings(annual_kwh, tariff)
    /\ LET p == payback(install_cost', annual_savings')
       IN  IF p.exc # "none"
           THEN /\ exc' = p.exc /\ pc' = "crashed"
                /\ UNCHANGED payback_years
           ELSE /\ payback_years' = p.years
                /\ pc' = "suitability"
                /\ UNCHANGED exc
    /\ UNCHANGED <<inputs, location, monthly_psh, layout, forecast, score,
                   year, nasa_resp, fn>>

\* line 408
Suitability ==
    /\ fn = "script" /\ pc = "suitability"
    /\ score' \in suitability_score(roof_area, monthly_psh, shading_factor,
                                    tilt_deg, selected_lat)
    /\ pc' = "done"
    /\ UNCHANGED <<inputs, location, monthly_psh, layout, forecast, financials,
                   year, nasa_resp, fn, exc>>

Next ==
    \/ ResolveLocation
    \/ MapInteraction
    \/ FetchSolarResource
    \/ PanelLayout
    \/ LayoutPreview
    \/ MonthlyForecast
    \/ Financials
    \/ Suitability

Spec == Init /\ [][Next]_vars

\* ------------------------------------------------------------------------
\* Direct calls of the helper functions
\* ------------------------------------------------------------------------
\* the widest roof of a direct call, in metres
MaxRoofMetres == 5

\* the number of years after 1896 a direct call is given
MaxYears == 130

CoreRoofDims == { 100 * k : k \in -1..MaxRoofMetres }

CorePanelWidths == {0, 110}

CorePanelHeights == {0, 175}

CoreClearances == {0, 40, 100}

CoreYears == 1896..(1896 + MaxYears)

CoreLatitudes ==
    {-520000, -300000, -299900, 0, 212500, 299900, 300000, 520000, 900000}

\* 0, 4, 80 and 400 m2
CoreRoofAreas == {0, 40000, 800000, 4000000}

\* the dicts the fetch can return, and the empty one
CoreIrradiances ==
    {<<>>, fallback_india, fallback_global}
    \cup { fetch_nasa_power_monthly(0, 0, r) : r \in GoodResponses }

CoreShadingFactors == {0, 2, 16, 30}

CoreTilts == {0, 21, 60}

InitComputePanelsFit ==
    /\ fn = "compute_panels_fit"
    /\ roof_w \in CoreRoofDims /\ roof_h \in CoreRoofDims
    /\ panel_w \in CorePanelWidths /\ panel_h \in CorePanelHeights
    /\ clearance \in CoreClearances /\ orientation \in Orientations
    /\ panel_watt = 400
    /\ DefaultLocationInputs /\ DefaultPerformanceInputs
    /\ year = 0 /\ nasa_resp = NoResponse
    /\ NothingComputed

InitDaysInMonths ==
    /\ fn = "days_in_months"
    /\ year \in CoreYears
    /\ DefaultLocationInputs /\ DefaultGeometryInputs /\ DefaultPerformanceInputs
    /\ nasa_resp = NoResponse
    /\ NothingComputed

InitSuitabilityScore ==
    /\ fn = "suitability_score"
    /\ roof_area \in CoreRoofAreas /\ monthly_psh \in CoreIrradiances
    /\ shading_factor \in CoreShadingFactors /\ tilt_deg \in CoreTilts
    /\ selected_lat \in CoreLatitudes
    /\ DefaultLocationInputs /\ DefaultGeometryInputs
    /\ performance_ratio = 15 /\ cost_per_kw = 55000 /\ tariff = 16
    /\ year = 0 /\ nasa_resp = NoResponse
    /\ selected_lon = 0 /\ selected_name = ""
    /\ panels_fit = 0 /\ rows = 0 /\ cols = 0 /\ system_kw = 0
    /\ fig_layout = {}
    /\ dim = <<>> /\ monthly_energy = <<>> /\ annual_kwh = 0
    /\ install_cost = 0 /\ annual_savings = 0 /\ payback_years = 0
    /\ score = 0 /\ exc = "none"

InitFetchNasaPowerMonthly ==
    /\ fn = "fetch_nasa_power_monthly"
    /\ selected_lat \in CoreLatitudes /\ selected_lon = 816296
    /\ nasa_resp \in Responses
    /\ DefaultLocationInputs /\ DefaultGeometryInputs /\ DefaultPerformanceInputs
    /\ year = 0
    /\ selected_name = "" /\ monthly_psh = <<>>
    /\ panels_fit = 0 /\ rows = 0 /\ cols = 0
    /\ system_kw = 0 /\ roof_area = 0 /\ fig_layout = {}
    /\ dim = <<>> /\ monthly_energy = <<>> /\ annual_kwh = 0
    /\ install_cost = 0 /\ annual_savings = 0 /\ payback_years = 0
    /\ score = 0 /\ exc = "none"

InitCore ==
    /\ pc = "call"
    /\ \/ InitComputePanelsFit
       \/ InitDaysInMonths
       \/ InitSuitabilityScore
       \/ InitFetchNasaPowerMonthly

CallComputePanelsFit ==
    /\ fn = "compute_panels_fit" /\ pc = "call"
    /\ LET r == compute_panels_fit(roof_w, roof_h, panel_w, panel_h, clearance,
                                   orientation)
       IN  /\ exc' = r.exc
           /\ panels_fit' = r.count /\ rows' = r.rows /\ cols' = r.cols
    /\ pc' = "returned"
    /\ UNCHANGED <<inputs, location, monthly_psh, system_kw, roof_area,
                   fig_layout, forecast, financials, score, year, nasa_resp, fn>>

\* the script's use of the packer's result (lines 356 and 361): the figure
\* is drawn from the rows and cols a call returned
CallDrawLayoutPreview ==
    /\ fn = "compute_panels_fit" /\ pc = "returned" /\ exc = "none"
    /\ fig_layout' = draw_layout_preview(roof_w, roof_h, rows, cols, panel_w,
                                         panel_h, clearance, orientation)
    /\ pc' = "drawn"
    /\ UNCHANGED <<inputs, location, monthly_psh, panels_fit, rows, cols,
                   system_kw, roof_area, forecast, financials, score,
                   year, nasa_resp, fn, exc>>

CallDaysInMonths ==
    /\ fn = "days_in_months" /\ pc = "call"
    /\ dim' = days_in_months(year)
    /\ pc' = "returned"
    /\ UNCHANGED <<inputs, location, monthly_psh, layout, monthly_energy,
                   annual_kwh, financials, score, year, nasa_resp, fn, exc>>

CallSuitabilityScore ==
    /\ fn = "suitability_score" /\ pc = "call"
    /\ score' \in suitability_score(roof_area, monthly_psh, shading_factor,
                                    tilt_deg, selected_lat)
    /\ pc' = "returned"
    /\ UNCHANGED <<inputs, location, monthly_psh, layout, forecast, financials,
                   year, nasa_resp, fn, exc>>

CallFetchNasaPowerMonthly ==
    /\ fn = "fetch_nasa_power_monthly" /\ pc = "call"
    /\ monthly_psh' = fetch_nasa_power_monthly(selected_lat, selected_lon,
                                               nasa_resp)
    /\ pc' = "returned"
    /\ UNCHANGED <<inputs, location, layout, forecast, financials, score,
                   year, nasa_resp, fn, exc>>

NextCore ==
    \/ CallComputePanelsFit
    \/ CallDrawLayoutPreview
    \/ CallDaysInMonths
    \/ CallSuitabilityScore
    \/ CallFetchNasaPowerMonthly

SpecCore == InitCore /\ [][NextCore]_vars

\* ------------------------------------------------------------------------
\* Properties of compute_panels_fit
\* ------------------------------------------------------------------------
\* a direct call of compute_panels_fit has returned or raised
FitReturned == fn = "compute_panels_fit" /\ pc = "returned"

\* the panel's extent along the roof's width and along its height
AlongWidth == IF orientation = "Landscape" THEN panel_h ELSE panel_w

AlongHeight == IF orientation = "Landscape" THEN panel_w ELSE panel_h

\* the roof dimension less twice the clearance, never negative
Available(roof_dim) ==
    IF roof_dim - 2 * clearance > 0 THEN roof_dim - 2 * clearance ELSE 0

\* n = floor((available + clearance/2) / (panel_axis + clearance)), not below 0
IsAxisCount(n, available, panel_axis) ==
    /\ n >= 0
    /\ n * 2 * (panel_axis + clearance) <= 2 * available + clearance
    /\ 2 * available + clearance < (n + 1) * 2 * (panel_axis + clearance)

\* C1: for panel width and height > 0 and clearance >= 0, the call returns,
\* per axis, floor((available + clearance/2) / (panel_axis + clearance))
\* clamped to >= 0, with available = max(roof dimension - 2*clearance, 0) and
\* the panel's sides swapped in Landscape; the count is rows * cols.
C1_PerAxisCount ==
    (FitReturned /\ panel_w > 0 /\ panel_h > 0 /\ clearance >= 0) =>
        /\ exc = "none"
        /\ IsAxisCount(cols, Available(roof_w), AlongWidth)
        /\ IsAxisCount(rows, Available(roof_h), AlongHeight)
        /\ panels_fit = rows * cols

\* a Landscape call where the swap and the half clearance both show: on a
\* 5 m x 3 m roof with 0.4 m of clearance the second column fits only with
\* the half clearance
C1_Witness ==
    /\ FitReturned /\ panel_w > 0 /\ panel_h > 0
    /\ orientation = "Landscape" /\ clearance = 40
    /\ roof_w = 500 /\ roof_h = 300
    /\ cols = 2 /\ rows = 1 /\ panels_fit = 2

\* the geometry that holds no panel: a zero or negative roof dimension, a
\* roof narrower than twice the clearance, a panel larger than the roof
Degenerate ==
    \/ roof_w <= 0 \/ roof_h <= 0
    \/ roof_w < 2 * clearance \/ roof_h < 2 * clearance
    \/ AlongWidth > roof_w \/ AlongHeight > roof_h

\* C3: compute_panels_fit raises nothing and returns no negative rows, cols
\* or count, and a count of 0 for degenerate geometry.
C3_TotalNonNegative ==
    FitReturned =>
        /\ exc = "none"
        /\ rows >= 0 /\ cols >= 0 /\ panels_fit >= 0
        /\ Degenerate => panels_fit = 0

\* a negative roof width, a zero panel width and no clearance
C3_Witness ==
    /\ FitReturned
    /\ roof_w < 0 /\ panel_w = 0 /\ clearance = 0 /\ orientation = "Portrait"
    /\ exc = "none" /\ panels_fit = 0

\* the count for another roof, the panel, clearance and orientation kept
CountFor(rw, rh) ==
    compute_panels_fit(rw, rh, panel_w, panel_h, clearance, orientation).count

\* C4: for the same panel, clearance and orientation, a roof at least as wide
\* and as high holds at least as many panels.
C4_Monotone ==
    FitReturned =>
        \A rw \in CoreRoofDims, rh \in CoreRoofDims :
            (rw >= roof_w /\ rh >= roof_h) => CountFor(rw, rh) >= panels_fit

\* a roof that holds a panel, and a larger one that holds more
C4_Witness ==
    /\ FitReturned /\ panels_fit > 0
    /\ \E rw \in CoreRoofDims, rh \in CoreRoofDims :
        /\ rw >= roof_w /\ rh >= roof_h
        /\ CountFor(rw, rh) > panels_fit

\* ------------------------------------------------------------------------
\* Properties of the run of the script
\* ------------------------------------------------------------------------
\* the layout is computed
LayoutDone ==
    fn = "script" /\ pc \in {"preview", "forecast", "financials", "suitability", "done"}

\* a 10 m x 8 m roof, 0.4 m of clearance, a 1.1 m x 1.75 m panel of 400 W
ScenarioRoof ==
    /\ roof_w = 1000 /\ roof_h = 800 /\ clearance = 40
    /\ panel_w = 110 /\ panel_h = 175 /\ panel_watt = 400

\* C2: on the scenario roof the packer yields 6 columns x 3 rows = 18 panels
\* in Portrait, a system of 7.2 kW; 4 columns x 4 rows = 16 panels and 6.4 kW
\* are what Landscape yields.
C2_ScenarioLayout ==
    (LayoutDone /\ ScenarioRoof) =>
        /\ orientation = "Portrait" =>
             cols = 6 /\ rows = 3 /\ panels_fit = 18 /\ system_kw = 144
        /\ orientation = "Landscape" =>
             cols = 4 /\ rows = 4 /\ panels_fit = 16 /\ system_kw = 128

C2_Witness ==
    /\ LayoutDone /\ ScenarioRoof /\ orientation = "Portrait"
    /\ panels_fit = 18 /\ system_kw = 144

\* C2 as the specification states it: in Portrait the scenario roof yields
\* 4 columns x 4 rows = 16 panels, a system of 6.4 kW.
C2_Original ==
    (LayoutDone /\ ScenarioRoof /\ orientation = "Portrait") =>
        cols = 4 /\ rows = 4 /\ panels_fit = 16 /\ system_kw = 128

\* the forecast is computed
ForecastDone == fn = "script" /\ pc \in {"financials", "suitability", "done"}

\* the length of the i-th month of the Gregorian calendar
GregorianDays(i, y) ==
    IF i = 2
    THEN (IF y % 400 = 0 THEN 29 ELSE IF y % 100 = 0 THEN 28
          ELSE IF y % 4 = 0 THEN 29 ELSE 28)
    ELSE IF i \in {4, 6, 9, 11} THEN 30 ELSE 31

\* C5: the forecast has one energy per calendar month, in the order Jan..Dec
\* of the irradiance series, each system_kw * irradiance * days in the month
\* * performance_ratio * (1 - shading_factor), and the annual total is their
\* sum.
C5_MonthlyEnergy ==
    ForecastDone =>
        /\ months = MonthNames
        /\ Len(monthly_energy) = 12
        /\ \A i \in 1..12 :
             monthly_energy[i] =
                 system_kw * monthly_psh[i][2] * GregorianDays(i, year)
                 * performance_ratio * (20 - shading_factor)
        /\ annual_kwh =
             monthly_energy[1] + monthly_energy[2] + monthly_energy[3]
             + monthly_energy[4] + monthly_energy[5] + monthly_energy[6]
             + monthly_energy[7] + monthly_energy[8] + monthly_energy[9]
             + monthly_energy[10] + monthly_energy[11] + monthly_energy[12]

\* a forecast of a leap year under shading, from the service's values
C5_Witness ==
    /\ ForecastDone /\ year = 2024
    /\ system_kw > 0 /\ shading_factor = 2 /\ performance_ratio = 15
    /\ monthly_psh[5][2] = 69
    /\ monthly_energy[2] > 0 /\ annual_kwh > monthly_energy[2]

\* every input of the forecast is >= 0
ForecastInputsNonNegative ==
    /\ system_kw >= 0
    /\ \A i \in 1..Len(monthly_psh) : monthly_psh[i][2] >= 0
    /\ \A i \in 1..Len(dim) : dim[i][2] >= 0
    /\ performance_ratio >= 0 /\ shading_factor >= 0

FinancialsDone == fn = "script" /\ pc \in {"suitability", "done"}

\* annual_kwh * tariff in currency units is WholeSavings + SavingsRest / 160000
WholeSavings == (annual_kwh \div 160000) * tariff

SavingsRest == (annual_kwh % 160000) * tariff

\* v is an integer nearest to n / d, d > 0
IsNearest(v, n, d) == 2 * (v * d - n) <= d /\ 2 * (n - v * d) <= d

\* C7: the run never raises on the division; the payback is
\* install_cost / max(annual_savings, 1) rounded to one decimal, with
\* install_cost = system_kw * cost_per_kw and annual_savings =
\* annual_kwh * tariff each rounded to a whole currency unit; with annual
\* savings of zero or less it is install_cost / 1.
C7_PaybackFloor ==
    /\ exc = "none" /\ pc # "crashed"
    /\ FinancialsDone =>
        /\ IsNearest(install_cost, system_kw * cost_per_kw, 20)
        /\ IsNearest(annual_savings - WholeSavings, SavingsRest, 160000)
        /\ IsNearest(payback_years, 10 * install_cost,
                     IF annual_savings > 1 THEN annual_savings ELSE 1)
        /\ annual_savings <= 0 => payback_years = 10 * install_cost

\* a system with a cost and no savings
C7_Witness ==
    /\ FinancialsDone
    /\ system_kw > 0 /\ annual_kwh = 0 /\ annual_savings = 0
    /\ install_cost > 0 /\ payback_years = 10 * install_cost

\* C7 as the specification states it: the payback is exactly
\* install_cost / max(annual_savings, 1), install_cost exactly
\* system_kw * cost_per_kw and annual_savings exactly annual_kwh * tariff.
C7_Original ==
    FinancialsDone =>
        /\ 20 * install_cost = system_kw * cost_per_kw
        /\ 160000 * (annual_savings - WholeSavings) = SavingsRest
        /\ payback_years * (IF annual_savings > 1 THEN annual_savings ELSE 1)
             = 10 * install_cost

\* ------------------------------------------------------------------------
\* Properties of days_in_months
\* ------------------------------------------------------------------------
DaysReturned == fn = "days_in_months" /\ pc = "returned"

LeapYear(y) == y % 4 = 0 /\ (y % 100 # 0 \/ y % 400 = 0)

\* the days of the year of the dict
DaysOfYear ==
    dim[1][2] + dim[2][2] + dim[3][2] + dim[4][2] + dim[5][2] + dim[6][2]
    + dim[7][2] + dim[8][2] + dim[9][2] + dim[10][2] + dim[11][2] + dim[12][2]

\* C8: February has 29 days exactly in the years divisible by 4 and not by
\* 100, or by 400, and 28 otherwise; the other months have their Gregorian
\* lengths, and the twelve sum to 366 or 365.
C8_LeapYear ==
    DaysReturned =>
        /\ Keys(dim) = MonthNames
        /\ dim[2][2] = (IF LeapYear(year) THEN 29 ELSE 28)
        /\ Values(dim) = <<31, dim[2][2], 31, 30, 31, 30, 31, 31, 30, 31, 30, 31>>
        /\ DaysOfYear = (IF LeapYear(year) THEN 366 ELSE 365)
        /\ year = 2024 => dim[2][2] = 29
        /\ year = 2023 => dim[2][2] = 28
        /\ year = 1900 => dim[2][2] = 28
        /\ year = 2000 => dim[2][2] = 29

\* a century that is no leap year
C8_Witness ==
    /\ DaysReturned /\ year = 1900
    /\ dim[2] = <<"Feb", 28>> /\ DaysOfYear = 365

\* ------------------------------------------------------------------------
\* Properties of suitability_score
\* ------------------------------------------------------------------------
ScoreReturned == fn = "suitability_score" /\ pc = "returned"

\* v lies between lo and hi points
Within(v, lo, hi) == lo * 300000 <= v /\ v <= hi * 300000

\* C9: the score lies in [0, 100] whatever the roof area, irradiance series
\* (the empty one too), shading, tilt and latitude: the resource sub-score is
\* 50 for an empty series and within [20, 95] otherwise, the area sub-score
\* within [30, 95], the shade sub-score within [10, 100], the tilt sub-score
\* within [40, 100], and the weights sum to 1.
C9_ScoreBounds ==
    ScoreReturned =>
        /\ 0 <= score /\ score <= 1000
        /\ monthly_psh = <<>> => resource_score(monthly_psh) = 50 * 300000
        /\ monthly_psh # <<>> => Within(resource_score(monthly_psh), 20, 95)
        /\ Within(area_score(roof_area), 30, 95)
        /\ Within(shade_score(shading_factor), 10, 100)
        /\ Within(tilt_score(tilt_deg, selected_lat), 40, 100)
        /\ weights[1] + weights[2] + weights[3] + weights[4] = 20
        /\ 20 * 30000 * (score - 1) < weighted_sum(roof_area, monthly_psh,
                              shading_factor, tilt_deg, selected_lat)
        /\ weighted_sum(roof_area, monthly_psh, shading_factor, tilt_deg,
                        selected_lat) < 20 * 30000 * (score + 1)

\* an empty series, and the three other sub-scores pinned: no roof, a shading
\* factor over 1, a tilt of 60 degrees at the equator,
\* 50 * 0.35 + 30 * 0.25 + 10 * 0.2 + 40 * 0.2 = 35
C9_Witness ==
    /\ ScoreReturned
    /\ monthly_psh = <<>> /\ roof_area = 0 /\ shading_factor = 30
    /\ tilt_deg = 60 /\ selected_lat = 0
    /\ score = 350

\* ------------------------------------------------------------------------
\* Properties of fetch_nasa_power_monthly
\* ------------------------------------------------------------------------
FetchReturned == fn = "fetch_nasa_power_monthly" /\ pc = "returned"

\* C10: when the request or the parsing of its response raises, the result
\* is the tropical profile for |lat| < 30 and the temperate profile
\* otherwise, |lat| = 30 included (21.25 gives the tropical one, 52 the
\* temperate one); every result has 12 entries, Jan..Dec.
C10_FallbackProfile ==
    FetchReturned =>
        /\ Len(monthly_psh) = 12
        /\ Keys(monthly_psh) =
             <<"Jan", "Feb", "Mar", "Apr", "May", "Jun",
               "Jul", "Aug", "Sep", "Oct", "Nov", "Dec">>
        /\ nasa_resp \in BadResponses =>
             /\ (-300000 < selected_lat /\ selected_lat < 300000)
                   => monthly_psh = fallback_india
             /\ (selected_lat <= -300000 \/ selected_lat >= 300000)
                   => monthly_psh = fallback_global
             /\ selected_lat = 212500 => Values(monthly_psh)[1] = 45
             /\ selected_lat = 520000 => Values(monthly_psh)[1] = 38

\* a response short of a month, at a latitude of exactly 30 degrees
C10_Witness ==
    /\ FetchReturned
    /\ selected_lat = 300000
    /\ fetch_exception(nasa_resp) = "KeyError" /\ nasa_resp.has_param
    /\ monthly_psh = fallback_global

\* ------------------------------------------------------------------------
\* Properties of draw_layout_preview
\* ------------------------------------------------------------------------
\* the figure of a returned call is drawn
LayoutDrawn == fn = "compute_panels_fit" /\ pc = "drawn"

\* the rectangle lies within the roof less the clearance on its four sides
InsideInset(p) ==
    /\ clearance <= p.x /\ p.x + p.w <= roof_w - clearance
    /\ clearance <= p.y /\ p.y + p.h <= roof_h - clearance

\* the two rectangles are at least the clearance apart, along the width or
\* along the height
Separated(p, q) ==
    \/ p.x + p.w + clearance <= q.x \/ q.x + q.w + clearance <= p.x
    \/ p.y + p.h + clearance <= q.y \/ q.y + q.h + clearance <= p.y

\* C11: for panel sides > 0 and clearance >= 0, the rows * cols panels drawn
\* from the packer's result at x = clearance + c*(pw + clearance),
\* y = clearance + r*(ph + clearance) each lie inside the roof inset by the
\* clearance on all four sides, and any two are at least the clearance apart.
C11_LayoutRespectsClearance ==
    (LayoutDrawn /\ panel_w > 0 /\ panel_h > 0 /\ clearance >= 0) =>
        /\ Cardinality(fig_layout) = rows * cols
        /\ \A p \in fig_layout :
             /\ p.w = AlongWidth /\ p.h = AlongHeight
             /\ InsideInset(p)
        /\ \A p \in fig_layout, q \in fig_layout : p # q => Separated(p, q)

\* two rows of two Landscape panels on a 5 m x 4 m roof with 0.4 m of
\* clearance, the second column there by the half clearance: its right edge
\* is at 4.3 m, the inset's at 4.6 m
C11_Witness ==
    /\ LayoutDrawn /\ orientation = "Landscape" /\ clearance = 40
    /\ roof_w = 500 /\ roof_h = 400 /\ panel_w = 110 /\ panel_h = 175
    /\ rows = 2 /\ cols = 2 /\ Cardinality(fig_layout) = 4
    /\ Rectangle(255, 190, 175, 110) \in fig_layout

\* ------------------------------------------------------------------------
\* The resolution of the location
\* ------------------------------------------------------------------------
\* the selectbox offers "" and every key of PLACES, the separators too
LocationPlaceChoices == {""} \cup { PLACES[i][1] : i \in 1..Len(PLACES) }

LocationFreeTexts == {"", "Naya Raipur"}

\* the override fields, at their defaults and moved
ManualPositions == { <<212514, 816296>>, <<100000, 760000>> }

\* A run of the script up to the map, over the location widgets
InitLocation ==
    /\ fn = "script" /\ pc = "resolve"
    /\ place_choice \in LocationPlaceChoices
    /\ free_text \in LocationFreeTexts
    /\ \E pos \in ManualPositions : manual_lat = pos[1] /\ manual_lon = pos[2]
    /\ GEOPY_AVAILABLE \in BOOLEAN
    /\ DefaultGeometryInputs /\ DefaultPerformanceInputs
    /\ year = 0 /\ nasa_resp = NoResponse
    /\ NothingComputed

NextLocation ==
    \/ ResolveLocation
    \/ MapInteraction

SpecLocation == InitLocation /\ [][NextLocation]_vars

\* the location is resolved and the map not yet read
LocationResolved == fn = "script" /\ pc = "map"

\* the positions a geocode can find
GeocodedPositions == { g.pos : g \in { o \in GeocodeOutcomes : o.kind = "found" } }

\* C12: before any map interaction, a valid predefined place gives the
\* selected coordinates; a geocode result is used only when no predefined
\* place is selected; and the manual latitude and longitude are used when
\* neither of the two yields coordinates (a failed or unavailable geocode
\* leaves the position resolved before it).
C12_ResolutionPriority ==
    LocationResolved =>
        /\ IsPlace(place_choice) =>
             <<selected_lat, selected_lon>> = Get(PLACES, place_choice)
        /\ <<selected_lat, selected_lon>> \in GeocodedPositions =>
             (free_text # "" /\ ~IsPlace(place_choice))
        /\ (~IsPlace(place_choice) /\ (free_text = "" \/ ~GEOPY_AVAILABLE)) =>
             <<selected_lat, selected_lon>> = <<manual_lat, manual_lon>>
        /\ (~IsPlace(place_choice)
              /\ <<selected_lat, selected_lon>> \notin GeocodedPositions) =>
             <<selected_lat, selected_lon>> = <<manual_lat, manual_lon>>

====
